---- MODULE Spec2Model ----
(***************************************************************************)
(* Agent lifecycle and scrape-cycle scheduling of the job tracker.         *)
(*                                                                         *)
(* Processes: the scraper agents (src/scraper-agent.ts), each running the  *)
(* scheduler (scheduler.ts: runScrapeCycle, startScheduler), and the agent *)
(* manager inside the UI process (getAgentStatus, startAgent, stopAgent).  *)
(* They share one durable row, ScraperState, and OS pids and signals.      *)
(*                                                                         *)
(* Every `await` of the source is a point where another task or process    *)
(* may run, so each action below is the code between two awaits: one       *)
(* database statement together with the synchronous code that follows it.  *)
(*                                                                         *)
(* The process that startAgent spawns (npx tsx scraper-agent.ts) and the   *)
(* node process it ends up running are taken as one process with one pid.  *)
(***************************************************************************)
EXTENDS Integers, FiniteSets, Sequences, TLC

\* ------------------------------------------------------------------ bounds
\* Agent processes that may ever be started (pids 1..NumAgents, never reused).
NumAgents == 2
\* Cycle invocations of one agent that may be pending at the same time.
MaxInv == 2
\* The clock stops advancing here (minutes).
MaxTime == 30
\* Minutes by which one Tick advances the clock.
TickMinutes == 15
\* Cards that one scanAllCards(keyword) may return.
MaxCards == 3
\* Distinct postings (linkedinId values) there are.
MaxIds == 2
\* Characters a title element may hold.
MaxTitleLen == 8
\* The greatest n of a date text "<n> <unit> ago".
MaxCount == 12
\* Keywords in config.search.keywords.
NumKeywords == 2
\* Cards on the result page of one keyword, in the loop over the keywords.
MaxPageCards == 2
\* The greatest card count the scroll loop may read.
MaxLoaded == 1
\* Cycle failures are no longer injected once errorCount has reached this.
MaxErrorCount == 6
\* The same, in the specifications of the agent lifecycle.
MaxErrLife == 1
\* Agent processes that may ever exist next to the manager.
MaxSpawned == 1

\* ------------------------------------------------------- program constants
maxConsecutiveErrors == 5
maxMinutesAgo == 10
\* extractCardData: a title longer than this is looked at for doubling.
dupMinLength == 6
\* extractJobId: /(\d{8,})/.
idMinDigits == 8
\* parseMinutesAgo: the age of a posting whose time cannot be parsed.
unparsedMinutes == 9999
\* parseRelativeTime and parseIsoDatetime: null.
null == -1
errorPauseMinutes == 30

NoPid == 0
Never == -1

Agents == 1..NumAgents
Keywords == 1..NumKeywords
Slots == 1..MaxInv

VARIABLES
    st,                 \* the ScraperState singleton row
    now,                \* wall clock, minutes
    configValid,        \* validateConfig().valid
    alive,              \* alive[a]: process a exists (kill(pid, 0) succeeds)
    apc,                \* apc[a]: position of main() of agent a
    exitCode,           \* exitCode[a]: "" while running, else how process a ended
    sigPending,         \* sigPending[a]: SIGINT/SIGTERM sent, handler not yet run
    shutdownRequested,  \* scheduler's module-level flag of agent a
    schedulerHandle,    \* schedulerHandle[a] # null in scraper-agent.ts
    intervalActive,     \* the setInterval timer of agent a is installed
    sdpc,               \* sdpc[a]: position of shutdown(signal) of agent a
    waitExpired,        \* shutdown(signal) of a left its wait loop by timeout
    cyc,                \* cyc[a][i]: invocation i of runScrapeCycle in agent a
    cycleLog,           \* cycleLog[a]: what runScrapeCycle of a last logged
    mpc,                \* position of the manager's current operation
    mop,                \* the manager operation in progress or last finished
    mpid,               \* local `pid` of startAgent / stopAgent
    mstate,             \* local `state` read by getAgentStatus
    mres,               \* AgentStatus returned by the last getAgentStatus
    mout,               \* how the last manager operation ended
    scanop,             \* the scanner or orchestrator step under study, or "none"
    scandone,           \* that step has run
    allCards,           \* runScrapeCycle: what scanAllCards(keyword) returned
    relevantIds,        \* runScrapeCycle: what filterRelevantJobs answers with
    jobs,               \* the Job table, as the set of its linkedinId values
    existingIds,        \* runScrapeCycle: what jobExistsBatch returned
    totalSaved,         \* runScrapeCycle: its counter of saved jobs
    isAuthenticated,    \* LinkedInScraper: the session is logged in
    rawTitle,           \* extractCardData: innerText of the title element
    title,              \* extractCardData: the title it returns
    postedDateText,     \* extractCardData: text of the date element
    postedDateAttr,     \* extractCardData: its datetime attribute
    minutesAgo,         \* extractCardData: what parseMinutesAgo returned
    linkToUse,          \* extractCardData: the href it found
    cardData,           \* extractCardData: its result
    scanpc,             \* position inside the step under study
    ki,                 \* runScrapeCycle: index of the keyword of the loop
    browserUp,          \* the browser of the scraper answers
    kwLog,              \* kwLog[k]: what scanAllCards logged last for keyword k
    failedSaves,        \* failedSaves[k]: ids with 'Failed to save' logged
    navigated,          \* extractApplyLink: the call went to the detail page
    redirected,         \* a detail page of this process led to a login wall
    applyLink,          \* extractApplyLink: what the call returned
    attempt,            \* scrollToLoadAllCards: its loop counter
    previousCardCount,  \* scrollToLoadAllCards
    staleRounds,        \* scrollToLoadAllCards
    counts              \* the card counts the scroll loop has read so far

vars == <<st, now, configValid, alive, apc, exitCode, sigPending,
          shutdownRequested, schedulerHandle, intervalActive, sdpc,
          waitExpired, cyc, cycleLog, mpc, mop, mpid, mstate, mres, mout,
          scanop, scandone, allCards, relevantIds, jobs, existingIds,
          totalSaved, isAuthenticated, rawTitle, title, postedDateText,
          postedDateAttr, minutesAgo, linkToUse, cardData, scanpc, ki,
          browserUp, kwLog, failedSaves, navigated, redirected, applyLink,
          attempt, previousCardCount, staleRounds, counts>>

agentVars == <<alive, apc, exitCode, sigPending, shutdownRequested,
               schedulerHandle, intervalActive, sdpc, waitExpired, cycleLog>>
mgrVars == <<mpc, mop, mpid, mstate, mres, mout>>
cardVars == <<isAuthenticated, rawTitle, title, postedDateText,
              postedDateAttr, minutesAgo, linkToUse, cardData>>
loopVars == <<ki, browserUp, kwLog, failedSaves>>
applyVars == <<navigated, redirected, applyLink>>
scrollVars == <<attempt, previousCardCount, staleRounds, counts>>
scanVars == <<scanop, scandone, allCards, relevantIds, jobs, existingIds,
              totalSaved, cardVars, scanpc, loopVars, applyVars, scrollVars>>

\* ------------------------------------------------------------ ScraperState
\* prisma create({id: 'singleton'}): the schema defaults.
DefaultState ==
    [isRunning |-> FALSE, pid |-> NoPid, errorCount |-> 0,
     lastRunAt |-> 0, lastSuccessAt |-> Never]

isProcessAlive(pid) == pid \in Agents /\ alive[pid]

markScraperRunning(s, t) == [s EXCEPT !.isRunning = TRUE, !.lastRunAt = t]

markScraperSuccess(s, t) ==
    [s EXCEPT !.isRunning = FALSE, !.lastSuccessAt = t, !.errorCount = 0]

\* markScraperError's update, `read` being the errorCount its own
\* getScraperState() returned one await earlier.
markScraperErrorWrite(s, read) ==
    [s EXCEPT !.isRunning = FALSE, !.errorCount = read + 1]

\* resetScraperStateOnStartup: the condition of its `if`, and its update.
resetNeeded(s) == s.isRunning \/ s.pid # NoPid

resetScraperStateWrite(s) == [s EXCEPT !.isRunning = FALSE, !.pid = NoPid]

setScraperPid(s, pid) == [s EXCEPT !.pid = pid]

clearScraperPid(s) == [s EXCEPT !.pid = NoPid, !.isRunning = FALSE]

\* ------------------------------------------------------------------- Init
\* An invocation slot of runScrapeCycle. sig records how the invocation
\* stands to the shutdown signal of its process: "during" when it had marked
\* isRunning and not yet closed its browser as shutdown(signal) began;
\* "tick" when the interval callback invoked it after shutdown(signal) began,
\* "start" when startScheduler did; "" otherwise.
IdleInv == [pc |-> "idle", errRead |-> 0, browser |-> FALSE, sig |-> ""]

\* Positions of an invocation from markScraperRunning to the end of close().
InFlight == {"launch", "work", "success", "errRead", "errWrite", "close"}

NoStatus == [running |-> FALSE, pid |-> NoPid, isRunningCycle |-> FALSE]

\* extractCardData returned null, or has not run.
NoCard == [linkedinId |-> <<>>, link |-> <<>>]

\* extractCardData has no card in hand.
CardIdle ==
    /\ isAuthenticated = FALSE
    /\ rawTitle = <<>> /\ title = <<>>
    /\ postedDateText = <<>> /\ postedDateAttr = <<>> /\ minutesAgo = 0
    /\ linkToUse = <<>> /\ cardData = NoCard

\* runScrapeCycle is not inside its keyword loop.
LoopIdle ==
    /\ ki = 0 /\ browserUp = FALSE
    /\ kwLog = [k \in Keywords |-> ""]
    /\ failedSaves = [k \in Keywords |-> {}]

\* extractApplyLink has not been called.
ApplyIdle == navigated = FALSE /\ redirected = FALSE /\ applyLink = ""

\* scrollToLoadAllCards is not running.
ScrollIdle ==
    /\ attempt = 0 /\ previousCardCount = 0 /\ staleRounds = 0
    /\ counts = <<>>

\* No scanner step is under study: the agent lifecycle alone.
ScanIdle ==
    /\ scanop = "none" /\ scandone = FALSE /\ scanpc = ""
    /\ allCards = <<>> /\ relevantIds = {} /\ jobs = {} /\ existingIds = {}
    /\ totalSaved = 0
    /\ CardIdle /\ LoopIdle /\ ApplyIdle /\ ScrollIdle

\* No agent process has been started and the manager has done nothing.
NoAgents ==
    /\ alive = [a \in Agents |-> FALSE]
    /\ apc = [a \in Agents |-> "unborn"]
    /\ exitCode = [a \in Agents |-> ""]
    /\ sigPending = [a \in Agents |-> FALSE]
    /\ shutdownRequested = [a \in Agents |-> FALSE]
    /\ schedulerHandle = [a \in Agents |-> FALSE]
    /\ intervalActive = [a \in Agents |-> FALSE]
    /\ sdpc = [a \in Agents |-> "idle"]
    /\ waitExpired = [a \in Agents |-> FALSE]
    /\ cyc = [a \in Agents |-> [i \in Slots |-> IdleInv]]
    /\ cycleLog = [a \in Agents |-> ""]
    /\ mpc = "idle"
    /\ mop = "none"
    /\ mpid = NoPid
    /\ mstate = DefaultState
    /\ mres = NoStatus
    /\ mout = "none"

Init ==
    /\ ScanIdle
    /\ st = DefaultState
    /\ now = 0
    /\ configValid \in BOOLEAN
    /\ NoAgents

\* ------------------------------------------------------------ environment
\* The clock advances.
Tick ==
    /\ now < MaxTime
    /\ now' = now + TickMinutes
    /\ UNCHANGED <<st, configValid, scanVars, agentVars, cyc, mgrVars>>

\* Someone runs the agent entry point directly (npm run agent).
EnvStartAgent(a) ==
    /\ apc[a] = "unborn"
    /\ \A b \in Agents : b < a => apc[b] # "unborn"
    /\ alive' = [alive EXCEPT ![a] = TRUE]
    /\ apc' = [apc EXCEPT ![a] = "boot"]
    /\ UNCHANGED <<st, now, configValid, scanVars, exitCode, sigPending, shutdownRequested,
                   schedulerHandle, intervalActive, sdpc, waitExpired, cyc, mgrVars, cycleLog>>

\* SIGINT or SIGTERM sent to agent a from outside the manager (Ctrl-C, kill).
EnvSignal(a) ==
    /\ alive[a]
    /\ ~sigPending[a]
    /\ sdpc[a] = "idle"
    /\ sigPending' = [sigPending EXCEPT ![a] = TRUE]
    /\ UNCHANGED <<st, now, configValid, scanVars, alive, apc, exitCode, shutdownRequested,
                   schedulerHandle, intervalActive, sdpc, waitExpired, cyc, mgrVars, cycleLog>>

\* ------------------------------------------------------- agent: main()
\* Process a ends in the way `code` names: everything it held in memory (its
\* timers, flags, pending signals and cycle invocations) is gone with it.
ProcessExit(a, code) ==
    /\ alive' = [alive EXCEPT ![a] = FALSE]
    /\ apc' = [apc EXCEPT ![a] = "exited"]
    /\ exitCode' = [exitCode EXCEPT ![a] = code]
    /\ sigPending' = [sigPending EXCEPT ![a] = FALSE]
    /\ shutdownRequested' = [shutdownRequested EXCEPT ![a] = FALSE]
    /\ schedulerHandle' = [schedulerHandle EXCEPT ![a] = FALSE]
    /\ intervalActive' = [intervalActive EXCEPT ![a] = FALSE]
    /\ sdpc' = [sdpc EXCEPT ![a] = "idle"]
    /\ waitExpired' = [waitExpired EXCEPT ![a] = FALSE]
    /\ cyc' = [cyc EXCEPT ![a] = [i \in Slots |-> IdleInv]]
    /\ cycleLog' = [cycleLog EXCEPT ![a] = ""]

\* Agent a crashes or is killed with SIGKILL from outside: no handler runs.
EnvCrash(a) ==
    /\ alive[a]
    /\ ProcessExit(a, "crash")
    /\ UNCHANGED <<st, now, configValid, scanVars, mgrVars>>

\* The script has loaded (signal handlers installed); initConfig, validateConfig.
AgentInit(a) ==
    /\ alive[a] /\ apc[a] = "boot"
    /\ IF configValid
         THEN /\ apc' = [apc EXCEPT ![a] = "check"]
              /\ UNCHANGED <<alive, exitCode, sigPending, shutdownRequested,
                             schedulerHandle, intervalActive, sdpc, waitExpired, cyc, cycleLog>>
         ELSE ProcessExit(a, "exit1")
    /\ UNCHANGED <<st, now, configValid, scanVars, mgrVars>>

\* An ownership check without the liveness probe of the recorded pid: the
\* agent goes on whatever ScraperState.pid names. C3 does not hold of it.
AgentCheckOwnerNoProbe(a) ==
    /\ alive[a] /\ apc[a] = "check"
    /\ apc' = [apc EXCEPT ![a] = "resetRead"]
    /\ UNCHANGED <<st, now, configValid, scanVars, alive, exitCode, sigPending,
                   shutdownRequested, schedulerHandle, intervalActive, sdpc,
                   waitExpired, cyc, cycleLog, mgrVars>>

\* "Check if another agent is already running": getScraperState, kill(pid, 0).
AgentCheckOwner(a) ==
    /\ alive[a] /\ apc[a] = "check"
    /\ IF st.pid # NoPid /\ isProcessAlive(st.pid)
         THEN ProcessExit(a, "exit1")
         ELSE /\ apc' = [apc EXCEPT ![a] = "resetRead"]
              /\ UNCHANGED <<alive, exitCode, sigPending, shutdownRequested,
                             schedulerHandle, intervalActive, sdpc, waitExpired, cyc, cycleLog>>
    /\ UNCHANGED <<st, now, configValid, scanVars, mgrVars>>

\* resetScraperStateOnStartup, first await: the read and the `if`.
ResetRead(a, at, write, skip) ==
    /\ alive[a] /\ apc[a] = at
    /\ apc' = [apc EXCEPT ![a] = IF resetNeeded(st) THEN write ELSE skip]
    /\ UNCHANGED <<st, now, configValid, scanVars, alive, exitCode, sigPending,
                   shutdownRequested, schedulerHandle, intervalActive, sdpc,
                   waitExpired, cyc, mgrVars, cycleLog>>

\* resetScraperStateOnStartup, second await: the update.
ResetWrite(a, at, next) ==
    /\ alive[a] /\ apc[a] = at
    /\ st' = resetScraperStateWrite(st)
    /\ apc' = [apc EXCEPT ![a] = next]
    /\ UNCHANGED <<now, configValid, scanVars, alive, exitCode, sigPending,
                   shutdownRequested, schedulerHandle, intervalActive, sdpc,
                   waitExpired, cyc, mgrVars, cycleLog>>

\* main(): "Clear any stuck state ... before registering".
AgentResetRead(a) == ResetRead(a, "resetRead", "resetWrite", "register")
AgentResetWrite(a) == ResetWrite(a, "resetWrite", "register")

\* main(): setScraperPid(process.pid).
AgentRegister(a) ==
    /\ alive[a] /\ apc[a] = "register"
    /\ st' = setScraperPid(st, a)
    /\ apc' = [apc EXCEPT ![a] = "schedResetRead"]
    /\ UNCHANGED <<now, configValid, scanVars, alive, exitCode, sigPending,
                   shutdownRequested, schedulerHandle, intervalActive, sdpc,
                   waitExpired, cyc, mgrVars, cycleLog>>

\* startScheduler(): its own resetScraperStateOnStartup.
SchedulerResetRead(a) == ResetRead(a, "schedResetRead", "schedResetWrite", "schedStart")
SchedulerResetWrite(a) == ResetWrite(a, "schedResetWrite", "schedStart")

\* A new invocation of runScrapeCycle up to its first await, made by `by`.
NewInv(a, by) == [IdleInv EXCEPT !.pc = "read",
                                !.sig = IF sdpc[a] # "idle" THEN by ELSE ""]

FreeSlot(a, S) == CHOOSE i \in S :
                     /\ cyc[a][i].pc = "idle"
                     /\ \A j \in S : cyc[a][j].pc = "idle" => i <= j

\* startScheduler() after its reset: the immediate runScrapeCycle() and
\* setInterval. It returns nothing, so schedulerHandle stays null in main().
SchedulerStart(a) ==
    /\ alive[a] /\ apc[a] = "schedStart"
    /\ cyc' = [cyc EXCEPT ![a][1] = NewInv(a, "start")]
    /\ intervalActive' = [intervalActive EXCEPT ![a] = TRUE]
    /\ apc' = [apc EXCEPT ![a] = "running"]
    /\ UNCHANGED <<st, now, configValid, scanVars, alive, exitCode, sigPending,
                   shutdownRequested, schedulerHandle, sdpc, waitExpired, mgrVars, cycleLog>>

\* The setInterval callback fires; S are the invocation slots in use.
IntervalTick(a, S) ==
    /\ alive[a] /\ intervalActive[a]
    /\ \E i \in S : cyc[a][i].pc = "idle"
    /\ cyc' = [cyc EXCEPT ![a][FreeSlot(a, S)] = NewInv(a, "tick")]
    /\ UNCHANGED <<st, now, configValid, scanVars, agentVars, mgrVars>>

\* --------------------------------------------------- agent: main().catch
\* The awaits of main() that query the database, and may reject.
FatalPoints == {"check", "resetRead", "resetWrite", "register",
                "schedResetRead", "schedResetWrite"}

\* A query of main() or startScheduler() rejects: main() rejects, and the
\* handler of main().catch is entered.
AgentFatal(a) ==
    /\ alive[a] /\ apc[a] \in FatalPoints
    /\ apc' = [apc EXCEPT ![a] = "catch"]
    /\ UNCHANGED <<st, now, configValid, scanVars, alive, exitCode, sigPending,
                   shutdownRequested, schedulerHandle, intervalActive, sdpc,
                   waitExpired, cyc, mgrVars, cycleLog>>

\* await clearScraperPid().catch(() => {}): the upsert is made, or it
\* rejects as well and the rejection is dropped.
AgentCatchClear(a) ==
    /\ alive[a] /\ apc[a] = "catch"
    /\ st' = clearScraperPid(st) \/ st' = st
    /\ apc' = [apc EXCEPT ![a] = "catchExit"]
    /\ UNCHANGED <<now, configValid, scanVars, alive, exitCode, sigPending,
                   shutdownRequested, schedulerHandle, intervalActive, sdpc,
                   waitExpired, cyc, mgrVars, cycleLog>>

\* await disconnectDatabase().catch(() => {}); process.exit(1).
AgentCatchExit(a) ==
    /\ alive[a] /\ apc[a] = "catchExit"
    /\ ProcessExit(a, "exit1")
    /\ UNCHANGED <<st, now, configValid, scanVars, mgrVars>>

\* ------------------------------------------------- agent: shutdown(signal)
\* requestShutdown() of scheduler.ts: sets the scheduler's shutdown flag.
requestShutdown(a) == [shutdownRequested EXCEPT ![a] = TRUE]

\* schedulerHandle.stop(), reached only `if (schedulerHandle)`: clearInterval.
stopIfHandle(a) ==
    IF schedulerHandle[a] THEN [intervalActive EXCEPT ![a] = FALSE] ELSE intervalActive

\* A signal sent before the script has installed its handlers ends the process.
AgentSignalDefault(a) ==
    /\ alive[a] /\ sigPending[a] /\ apc[a] = "boot"
    /\ ProcessExit(a, "sigterm")
    /\ UNCHANGED <<st, now, configValid, scanVars, mgrVars>>

\* process.on('SIGINT' | 'SIGTERM'): shutdown(signal) up to its first await.
\* A process is sent one signal at most.
AgentOnSignal(a) ==
    /\ alive[a] /\ sigPending[a] /\ apc[a] # "boot"
    /\ sdpc[a] = "idle"
    /\ sigPending' = [sigPending EXCEPT ![a] = FALSE]
    /\ shutdownRequested' = requestShutdown(a)
    /\ intervalActive' = stopIfHandle(a)
    /\ sdpc' = [sdpc EXCEPT ![a] = "poll"]
    /\ cyc' = [cyc EXCEPT ![a] = [i \in Slots |->
                  IF cyc[a][i].pc \in InFlight
                    THEN [cyc[a][i] EXCEPT !.sig = "during"]
                    ELSE cyc[a][i]]]
    /\ UNCHANGED <<st, now, configValid, scanVars, alive, apc, exitCode, schedulerHandle,
                   waitExpired, mgrVars, cycleLog>>

\* The wait loop reads isRunning = false and breaks.
ShutdownPoll(a) ==
    /\ alive[a] /\ sdpc[a] = "poll"
    /\ ~st.isRunning
    /\ sdpc' = [sdpc EXCEPT ![a] = "clear"]
    /\ UNCHANGED <<st, now, configValid, scanVars, alive, apc, exitCode, sigPending,
                   shutdownRequested, schedulerHandle, intervalActive,
                   waitExpired, cyc, mgrVars, cycleLog>>

\* The wait loop ends because maxWaitMs (2 minutes) have passed.
ShutdownTimeout(a) ==
    /\ alive[a] /\ sdpc[a] = "poll"
    /\ st.isRunning
    /\ sdpc' = [sdpc EXCEPT ![a] = "clear"]
    /\ waitExpired' = [waitExpired EXCEPT ![a] = TRUE]
    /\ UNCHANGED <<st, now, configValid, scanVars, alive, apc, exitCode, sigPending,
                   shutdownRequested, schedulerHandle, intervalActive, cyc, mgrVars, cycleLog>>

\* await clearScraperPid().
ShutdownClear(a) ==
    /\ alive[a] /\ sdpc[a] = "clear"
    /\ st' = clearScraperPid(st)
    /\ sdpc' = [sdpc EXCEPT ![a] = "exit"]
    /\ UNCHANGED <<now, configValid, scanVars, alive, apc, exitCode, sigPending,
                   shutdownRequested, schedulerHandle, intervalActive,
                   waitExpired, cyc, mgrVars, cycleLog>>

\* await disconnectDatabase(); process.exit(0).
ShutdownExit(a) ==
    /\ alive[a] /\ sdpc[a] = "exit"
    /\ ProcessExit(a, "exit0")
    /\ UNCHANGED <<st, now, configValid, scanVars, mgrVars>>

\* ------------------------------------------------- agent: runScrapeCycle()
\* A pause guard that never looks at the clock: at the threshold the cycle is
\* skipped until errorCount changes. C11 does not hold of it.
PausedWithoutWindow(s, t) == s.errorCount >= maxConsecutiveErrors

\* A pause guard that compares with > where the code has >=: the cycle after
\* the threshold-th failure still runs. C10 does not hold of it.
PausedAboveThreshold(s, t) ==
    /\ s.errorCount > maxConsecutiveErrors
    /\ t < s.lastRunAt + errorPauseMinutes

\* "Check if paused due to too many errors", on the state just read.
Paused(s, t) ==
    /\ s.errorCount >= maxConsecutiveErrors
    /\ t < s.lastRunAt + errorPauseMinutes

\* The entry guards of runScrapeCycle: TRUE when the cycle goes on.
PassesGuards(s, t) == ~s.isRunning /\ ~Paused(s, t)

SetInv(a, i, r) == cyc' = [cyc EXCEPT ![a][i] = r]

\* getScraperState() and the two entry guards.
\* What the guards log: 'Previous scrape cycle still running, skipping',
\* 'Scraper paused due to consecutive errors', or nothing of the two.
GuardLog(s, t) ==
    IF s.isRunning THEN "skipping" ELSE IF Paused(s, t) THEN "paused" ELSE "passed"

CycleEnter(a, i) ==
    /\ alive[a] /\ cyc[a][i].pc = "read"
    /\ IF PassesGuards(st, now)
         THEN SetInv(a, i, [cyc[a][i] EXCEPT !.pc = "mark"])
         ELSE SetInv(a, i, IdleInv)
    /\ cycleLog' = [cycleLog EXCEPT ![a] = GuardLog(st, now)]
    /\ UNCHANGED <<st, now, configValid, scanVars, alive, apc, exitCode, sigPending,
                   shutdownRequested, schedulerHandle, intervalActive, sdpc,
                   waitExpired, mgrVars>>

\* await markScraperRunning().
CycleMark(a, i) ==
    /\ alive[a] /\ cyc[a][i].pc = "mark"
    /\ st' = markScraperRunning(st, now)
    /\ SetInv(a, i, [cyc[a][i] EXCEPT !.pc = "launch"])
    /\ UNCHANGED <<now, configValid, scanVars, agentVars, mgrVars>>

\* getOrCreateProfileSummary() and scraper.launch(): the browser is open
\* afterwards; when one of them throws, the browser may or may not exist.
\* No exception is injected once errorCount has reached cap.
CycleLaunch(a, i, cap) ==
    /\ alive[a] /\ cyc[a][i].pc = "launch"
    /\ \/ SetInv(a, i, [cyc[a][i] EXCEPT !.pc = "work", !.browser = TRUE])
       \/ /\ st.errorCount < cap
          /\ \E b \in BOOLEAN :
               SetInv(a, i, [cyc[a][i] EXCEPT !.pc = "errRead", !.browser = b])
    /\ UNCHANGED <<st, now, configValid, scanVars, agentVars, mgrVars>>

\* The keyword loop: it runs to its end, or an exception leaves the try block.
CycleWork(a, i, cap) ==
    /\ alive[a] /\ cyc[a][i].pc = "work"
    /\ \/ SetInv(a, i, [cyc[a][i] EXCEPT !.pc = "success"])
       \/ /\ st.errorCount < cap
          /\ SetInv(a, i, [cyc[a][i] EXCEPT !.pc = "errRead"])
    /\ UNCHANGED <<st, now, configValid, scanVars, agentVars, mgrVars>>

\* await markScraperSuccess().
CycleSuccess(a, i) ==
    /\ alive[a] /\ cyc[a][i].pc = "success"
    /\ st' = markScraperSuccess(st, now)
    /\ SetInv(a, i, [cyc[a][i] EXCEPT !.pc = "close"])
    /\ UNCHANGED <<now, configValid, scanVars, agentVars, mgrVars>>

\* catch: markScraperError(), its getScraperState(). The guard on cap keeps
\* errorCount bounded when updates of overlapping invocations interleave.
CycleErrorRead(a, i, cap) ==
    /\ alive[a] /\ cyc[a][i].pc = "errRead"
    /\ st.errorCount < cap
    /\ SetInv(a, i, [cyc[a][i] EXCEPT !.pc = "errWrite", !.errRead = st.errorCount])
    /\ UNCHANGED <<st, now, configValid, scanVars, agentVars, mgrVars>>

\* A cycle whose catch block returns once markScraperError() is done, with no
\* finally block behind it. C12 does not hold of it.
CycleErrorWriteNoFinally(a, i) ==
    /\ alive[a] /\ cyc[a][i].pc = "errWrite"
    /\ st' = markScraperErrorWrite(st, cyc[a][i].errRead)
    /\ SetInv(a, i, [IdleInv EXCEPT !.browser = cyc[a][i].browser])
    /\ UNCHANGED <<now, configValid, scanVars, agentVars, mgrVars>>

\* catch: markScraperError(), its update.
CycleErrorWrite(a, i) ==
    /\ alive[a] /\ cyc[a][i].pc = "errWrite"
    /\ st' = markScraperErrorWrite(st, cyc[a][i].errRead)
    /\ SetInv(a, i, [cyc[a][i] EXCEPT !.pc = "close", !.errRead = 0])
    /\ UNCHANGED <<now, configValid, scanVars, agentVars, mgrVars>>

\* finally: await scraper.close(), which closes context and browser when they
\* exist and logs 'Browser closed'.
CycleClose(a, i) ==
    /\ alive[a] /\ cyc[a][i].pc = "close"
    /\ SetInv(a, i, IdleInv)
    /\ cycleLog' = [cycleLog EXCEPT ![a] = "closed"]
    /\ UNCHANGED <<st, now, configValid, scanVars, alive, apc, exitCode, sigPending,
                   shutdownRequested, schedulerHandle, intervalActive, sdpc,
                   waitExpired, mgrVars>>

\* ---------------------------------------------------------- agent manager
\* An HTTP handler of the UI calls getAgentStatus, startAgent or stopAgent.
MgrCall(op) ==
    /\ mpc = "idle"
    /\ mop' = op
    /\ mpc' = "read"
    /\ mpid' = NoPid
    /\ mstate' = DefaultState
    /\ mres' = NoStatus
    /\ mout' = ""
    /\ UNCHANGED <<st, now, configValid, scanVars, agentVars, cyc>>

\* The AgentStatus record getAgentStatus returns: `running` and `pid` as its
\* locals stand at the return, the other fields from the state it read.
AgentStatus(running, pid, read) ==
    [running |-> running, pid |-> pid, isRunningCycle |-> read.isRunning]

\* Where the manager goes once getAgentStatus has returned.
AfterStatus == IF mop = "status" THEN "idle" ELSE "decide"

\* getAgentStatus: `running` as the liveness probe of the recorded pid sets it.
ProbeRunning(s) == s.pid # NoPid /\ isProcessAlive(s.pid)

\* getAgentStatus: getScraperState and the liveness probe of the recorded pid.
MgrStatusRead ==
    /\ mpc = "read" /\ mop \in {"status", "start"}
    /\ IF st.pid # NoPid /\ ~isProcessAlive(st.pid)
         THEN /\ mstate' = st
              /\ mpc' = "clean"
              /\ UNCHANGED <<mres, mout>>
         ELSE /\ mres' = AgentStatus(ProbeRunning(st), st.pid, st)
              /\ mpc' = AfterStatus
              /\ mout' = "status"
              /\ UNCHANGED mstate
    /\ UNCHANGED <<st, now, configValid, scanVars, agentVars, cyc, mop, mpid>>

\* getAgentStatus: "clean up stale PID": await clearScraperPid(); pid = null.
MgrStatusClean ==
    /\ mpc = "clean"
    /\ st' = clearScraperPid(st)
    /\ mres' = AgentStatus(FALSE, NoPid, mstate)
    /\ mstate' = DefaultState
    /\ mpc' = AfterStatus
    /\ mout' = "cleaned"
    /\ UNCHANGED <<now, configValid, scanVars, agentVars, cyc, mop, mpid>>

Unborn(A) == {a \in A : apc[a] = "unborn"}

\* startAgent after its status check: the two rejections, else spawn(), which
\* gives no pid once the pids A are used up.
MgrStartDecide(A) ==
    /\ mpc = "decide"
    /\ IF mres.running
         THEN /\ mout' = "alreadyRunning" /\ mpc' = "idle"
              /\ UNCHANGED <<alive, apc, mpid>>
         ELSE IF ~configValid
         THEN /\ mout' = "configInvalid" /\ mpc' = "idle"
              /\ UNCHANGED <<alive, apc, mpid>>
         ELSE IF Unborn(A) = {}
         THEN /\ mout' = "spawnFailed" /\ mpc' = "idle"
              /\ UNCHANGED <<alive, apc, mpid>>
         ELSE LET a == CHOOSE x \in Unborn(A) : \A y \in Unborn(A) : x <= y IN
              /\ alive' = [alive EXCEPT ![a] = TRUE]
              /\ apc' = [apc EXCEPT ![a] = "boot"]
              /\ mpid' = a
              /\ mpc' = "setPid"
              /\ UNCHANGED mout
    /\ UNCHANGED <<st, now, configValid, scanVars, exitCode, sigPending, shutdownRequested,
                   schedulerHandle, intervalActive, sdpc, waitExpired, cyc,
                   mop, mstate, mres, cycleLog>>

\* startAgent: "Write PID to DB immediately": await setScraperPid(pid).
MgrStartSetPid ==
    /\ mpc = "setPid"
    /\ st' = setScraperPid(st, mpid)
    /\ mpc' = "settle"
    /\ UNCHANGED <<now, configValid, scanVars, agentVars, cyc, mop, mpid, mstate, mres, mout>>

\* startAgent: after the 500 ms wait, "verify the process is alive".
MgrStartVerify ==
    /\ mpc = "settle"
    /\ IF isProcessAlive(mpid)
         THEN mpc' = "idle" /\ mout' = "started"
         ELSE mpc' = "startClean" /\ UNCHANGED mout
    /\ UNCHANGED <<st, now, configValid, scanVars, agentVars, cyc, mop, mpid, mstate, mres>>

\* startAgent: the child died: await clearScraperPid(); throw.
MgrStartClean ==
    /\ mpc = "startClean"
    /\ st' = clearScraperPid(st)
    /\ mpc' = "idle"
    /\ mout' = "diedAfterSpawn"
    /\ UNCHANGED <<now, configValid, scanVars, agentVars, cyc, mop, mpid, mstate, mres>>

\* stopAgent: getScraperState, the liveness probe and SIGTERM.
MgrStopRead ==
    /\ mpc = "read" /\ mop = "stop"
    /\ mpid' = st.pid
    /\ IF st.pid = NoPid
         THEN /\ mpc' = "idle" /\ mout' = "nothingToStop"
              /\ UNCHANGED sigPending
         ELSE IF ~isProcessAlive(st.pid)
         THEN /\ mpc' = "stopClean" /\ mout' = "alreadyDead"
              /\ UNCHANGED sigPending
         ELSE /\ sigPending' = [sigPending EXCEPT ![st.pid] = TRUE]
              /\ mpc' = "stopPoll"
              /\ UNCHANGED mout
    /\ UNCHANGED <<st, now, configValid, scanVars, alive, apc, exitCode, shutdownRequested,
                   schedulerHandle, intervalActive, sdpc, waitExpired, cyc,
                   mop, mstate, mres, cycleLog>>

\* stopAgent: a poll of the wait loop finds the process gone.
MgrStopPoll ==
    /\ mpc = "stopPoll"
    /\ ~isProcessAlive(mpid)
    /\ mpc' = "stopClean"
    /\ mout' = "graceful"
    /\ UNCHANGED <<st, now, configValid, scanVars, agentVars, cyc, mop, mpid, mstate, mres>>

\* A stopAgent that gives up after its wait without sending SIGKILL.
\* C5 does not hold of it.
MgrStopTimeoutNoKill ==
    /\ mpc = "stopPoll"
    /\ mpc' = "stopClean"
    /\ mout' = "forced"
    /\ UNCHANGED <<st, now, configValid, scanVars, agentVars, cyc, mop, mpid, mstate, mres>>

\* stopAgent: maxWaitMs (15 s) have passed: SIGKILL.
MgrStopTimeout ==
    /\ mpc = "stopPoll"
    /\ IF isProcessAlive(mpid)
         THEN ProcessExit(mpid, "sigkill")
         ELSE UNCHANGED <<agentVars, cyc>>
    /\ mpc' = "stopClean"
    /\ mout' = "forced"
    /\ UNCHANGED <<st, now, configValid, scanVars, mop, mpid, mstate, mres>>

\* stopAgent: await clearScraperPid() and return.
MgrStopClean ==
    /\ mpc = "stopClean"
    /\ st' = clearScraperPid(st)
    /\ mpc' = "idle"
    /\ UNCHANGED <<now, configValid, scanVars, agentVars, cyc, mop, mpid, mstate, mres, mout>>

\* ------------------------------------- orchestrator: the keyword loop body
Ids == 1..MaxIds

\* Ages a card may carry: at the limit of the time filter, and one minute over.
Ages == {maxMinutesAgo, maxMinutesAgo + 1}

\* A ScrapedJob as far as the loop looks at it.
Cards == [linkedinId : Ids, minutesAgo : Ages]

CardLists == UNION {[1..n -> Cards] : n \in 0..MaxCards}

\* A time filter that keeps only cards strictly younger than maxMinutesAgo.
\* C13 does not hold of it.
recentCardsStrict(cards) ==
    SelectSeq(cards, LAMBDA job : job.minutesAgo < maxMinutesAgo)

\* STEP 2: allCards.filter(job => job.minutesAgo <= maxMinutesAgo).
recentCards(cards) ==
    SelectSeq(cards, LAMBDA job : job.minutesAgo <= maxMinutesAgo)

\* STEP 3: recentCards.filter(job => relevantIds.has(job.linkedinId)).
relevantCards(cards, ids) ==
    SelectSeq(recentCards(cards), LAMBDA job : job.linkedinId \in ids)

\* jobExistsBatch: the ids among linkedinIds that the Job table holds.
jobExistsBatch(linkedinIds, table) ==
    {linkedinIds[k] : k \in DOMAIN linkedinIds} \cap table

\* STEP 4: relevantCards.filter(job => !existingIds.has(job.linkedinId)).
newCards(cards, existing) ==
    SelectSeq(cards, LAMBDA job : job.linkedinId \notin existing)

\* STEP 5: for (const job of newCards) saveJobMinimal(...). prisma.job.create
\* throws on the unique index of linkedinId; the loop logs it and goes on.
RECURSIVE saveJobs(_, _, _)
saveJobs(cards, table, saved) ==
    IF cards = <<>>
      THEN [jobs |-> table, totalSaved |-> saved]
      ELSE IF Head(cards).linkedinId \in table
             THEN saveJobs(Tail(cards), table, saved)
             ELSE saveJobs(Tail(cards), table \cup {Head(cards).linkedinId},
                           saved + 1)

\* The loop body for one keyword (config.search.keywords holds one), then
\* await markScraperSuccess().
RunKeywordLoop ==
    /\ scanop = "keyword" /\ ~scandone
    /\ LET relevant == relevantCards(allCards, relevantIds)
           existing == jobExistsBatch([k \in DOMAIN relevant |->
                                          relevant[k].linkedinId], jobs)
           result == saveJobs(newCards(relevant, existing), jobs, totalSaved)
       IN /\ existingIds' = existing
          /\ jobs' = result.jobs
          /\ totalSaved' = result.totalSaved
    /\ st' = markScraperSuccess(st, now)
    /\ scandone' = TRUE
    /\ UNCHANGED <<now, configValid, agentVars, cyc, mgrVars, scanop, allCards,
                   relevantIds, cardVars, scanpc, loopVars, applyVars,
                   scrollVars>>

\* A cycle stands at its keyword loop: marked running, some failures behind
\* it, any scan result, any answer of the relevance filter, any Job table.
InitKeyword ==
    /\ scanop = "keyword" /\ scandone = FALSE
    /\ allCards \in CardLists
    /\ relevantIds \in SUBSET Ids
    /\ jobs \in SUBSET Ids
    /\ existingIds = {} /\ totalSaved = 0
    /\ scanpc = ""
    /\ CardIdle /\ LoopIdle /\ ApplyIdle /\ ScrollIdle
    /\ st \in {[markScraperRunning(DefaultState, 0) EXCEPT !.errorCount = e] :
                  e \in 0..MaxErrLife}

\* ----------------------------------- orchestrator: the loop over keywords
\* Result pages of one keyword: up to MaxPageCards cards, all of them recent.
PageLists ==
    UNION {[1..n -> [linkedinId : Ids, minutesAgo : {maxMinutesAgo}]] :
              n \in 0..MaxPageCards}

\* The linkedinId values of a list of cards.
idsOf(cards) == {cards[k].linkedinId : k \in DOMAIN cards}

\* How a scan may go: to its end; page.goto times out or the network fails;
\* the browser crashes before any card is read; it crashes after some cards.
ScanEvents == {"ok", "navError", "crashNav", "crashCards"}

\* The outer catch of scanAllCards is entered: it logs and returns no cards.
ScanThrows(e) == ~browserUp \/ e \in {"navError", "crashNav"}

\* STEP 5 where the loop stops saving at the first saveJobMinimal that
\* throws. C25 does not hold of it.
RECURSIVE saveNewCardsAbort(_, _, _, _, _)
saveNewCardsAbort(cards, table, saved, failed, bad) ==
    IF cards = <<>>
      THEN [jobs |-> table, totalSaved |-> saved, failed |-> failed]
      ELSE IF Head(cards).linkedinId \in table \cup bad
             THEN [jobs |-> table, totalSaved |-> saved,
                   failed |-> failed \cup {Head(cards).linkedinId}]
             ELSE saveNewCardsAbort(Tail(cards),
                                    table \cup {Head(cards).linkedinId},
                                    saved + 1, failed, bad)

\* STEP 5: for (const job of newCards) { try { saveJobMinimal; totalSaved++ }
\* catch { 'Failed to save' } }. prisma.job.create throws on the unique
\* index of linkedinId, and for the ids of bad for some other reason.
RECURSIVE saveNewCards(_, _, _, _, _)
saveNewCards(cards, table, saved, failed, bad) ==
    IF cards = <<>>
      THEN [jobs |-> table, totalSaved |-> saved, failed |-> failed]
      ELSE IF Head(cards).linkedinId \in table \cup bad
             THEN saveNewCards(Tail(cards), table, saved,
                               failed \cup {Head(cards).linkedinId}, bad)
             ELSE saveNewCards(Tail(cards),
                               table \cup {Head(cards).linkedinId},
                               saved + 1, failed, bad)

\* One pass of the loop over config.search.keywords in which a failed scan
\* leaves the try block: markScraperError, then the finally. C24 does not
\* hold of it.
KeywordIterationAbortsCycle ==
    /\ scanop = "cycle" /\ scanpc = "keyword" /\ ki \in Keywords
    /\ \E e \in ScanEvents, cards \in PageLists :
         /\ (ScanThrows(e) => cards = <<>>)
         /\ allCards' = cards
         /\ browserUp' = (browserUp /\ e \in {"ok", "navError"})
         /\ kwLog' = [kwLog EXCEPT ![ki] = IF ScanThrows(e)
                                             THEN "Scan failed"
                                             ELSE "Scan complete"]
         /\ \E rel \in SUBSET idsOf(recentCards(cards)), bad \in SUBSET Ids :
              LET relevant == relevantCards(cards, rel)
                  existing == jobExistsBatch([k \in DOMAIN relevant |->
                                                relevant[k].linkedinId], jobs)
                  new == newCards(relevant, existing)
                  result == saveNewCards(new, jobs, totalSaved, {}, bad)
              IN /\ bad \subseteq idsOf(new)
                 /\ relevantIds' = rel
                 /\ existingIds' = existing
                 /\ jobs' = result.jobs
                 /\ totalSaved' = result.totalSaved
                 /\ failedSaves' = [failedSaves EXCEPT ![ki] = result.failed]
         /\ IF ScanThrows(e)
              THEN /\ st' = markScraperErrorWrite(st, st.errorCount)
                   /\ scanpc' = "close" /\ ki' = ki
              ELSE /\ st' = st
                   /\ ki' = ki + 1
                   /\ scanpc' = IF ki = NumKeywords THEN "success"
                                ELSE "keyword"
    /\ UNCHANGED <<now, configValid, agentVars, cyc, mgrVars, scanop,
                   scandone, cardVars, applyVars, scrollVars>>

\* One pass of the loop over config.search.keywords, lines 81-170, in a
\* session that is not authenticated: scanAllCards, which catches what the
\* page throws; the three filters; the saves.
KeywordIteration ==
    /\ scanop = "cycle" /\ scanpc = "keyword" /\ ki \in Keywords
    /\ \E e \in ScanEvents, cards \in PageLists :
         /\ (ScanThrows(e) => cards = <<>>)
         /\ allCards' = cards
         /\ browserUp' = (browserUp /\ e \in {"ok", "navError"})
         /\ kwLog' = [kwLog EXCEPT ![ki] = IF ScanThrows(e)
                                             THEN "Scan failed"
                                             ELSE "Scan complete"]
         /\ \E rel \in SUBSET idsOf(recentCards(cards)), bad \in SUBSET Ids :
              LET relevant == relevantCards(cards, rel)
                  existing == jobExistsBatch([k \in DOMAIN relevant |->
                                                relevant[k].linkedinId], jobs)
                  new == newCards(relevant, existing)
                  result == saveNewCards(new, jobs, totalSaved, {}, bad)
              IN /\ bad \subseteq idsOf(new)
                 /\ relevantIds' = rel
                 /\ existingIds' = existing
                 /\ jobs' = result.jobs
                 /\ totalSaved' = result.totalSaved
                 /\ failedSaves' = [failedSaves EXCEPT ![ki] = result.failed]
    /\ ki' = ki + 1
    /\ scanpc' = IF ki = NumKeywords THEN "success" ELSE "keyword"
    /\ UNCHANGED <<st, now, configValid, agentVars, cyc, mgrVars, scanop,
                   scandone, cardVars, applyVars, scrollVars>>

\* filterRelevantJobs or jobExistsBatch rejects: the exception leaves the
\* try block, and the catch runs markScraperError().
KeywordThrows ==
    /\ scanop = "cycle" /\ scanpc = "keyword" /\ ki \in Keywords
    /\ st' = markScraperErrorWrite(st, st.errorCount)
    /\ scanpc' = "close"
    /\ UNCHANGED <<now, configValid, agentVars, cyc, mgrVars, scanop,
                   scandone, allCards, relevantIds, jobs, existingIds,
                   totalSaved, cardVars, loopVars, applyVars, scrollVars>>

\* The loop is over: await markScraperSuccess().
LoopSuccess ==
    /\ scanop = "cycle" /\ scanpc = "success"
    /\ st' = markScraperSuccess(st, now)
    /\ scanpc' = "close"
    /\ UNCHANGED <<now, configValid, agentVars, cyc, mgrVars, scanop,
                   scandone, allCards, relevantIds, jobs, existingIds,
                   totalSaved, cardVars, loopVars, applyVars, scrollVars>>

\* finally: await scraper.close().
LoopClose ==
    /\ scanop = "cycle" /\ scanpc = "close"
    /\ scanpc' = "closed"
    /\ scandone' = TRUE
    /\ UNCHANGED <<st, now, configValid, agentVars, cyc, mgrVars, scanop,
                   allCards, relevantIds, jobs, existingIds, totalSaved,
                   cardVars, loopVars, applyVars, scrollVars>>

\* A cycle has launched its browser and stands before its first keyword.
InitLoop ==
    /\ scanop = "cycle" /\ scandone = FALSE /\ scanpc = "keyword"
    /\ allCards = <<>> /\ relevantIds = {} /\ existingIds = {}
    /\ jobs \in SUBSET Ids
    /\ totalSaved = 0
    /\ ki = 1 /\ browserUp = TRUE
    /\ kwLog = [k \in Keywords |-> ""]
    /\ failedSaves = [k \in Keywords |-> {}]
    /\ CardIdle /\ ApplyIdle /\ ScrollIdle
    /\ st \in {[markScraperRunning(DefaultState, 0) EXCEPT !.errorCount = e] :
                  e \in 0..MaxErrLife}

\* ---------------------------------------------------------- card scanner
\* Strings are sequences of one-character strings.

digits == <<"0", "1", "2", "3", "4", "5", "6", "7", "8", "9">>
Digit == {digits[k] : k \in DOMAIN digits}
lowerCase == <<"a", "b", "c", "d", "e", "f", "g", "h", "i", "j", "k", "l", "m",
              "n", "o", "p", "q", "r", "s", "t", "u", "v", "w", "x", "y", "z">>
upperCase == <<"A", "B", "C", "D", "E", "F", "G", "H", "I", "J", "K", "L", "M",
              "N", "O", "P", "Q", "R", "S", "T", "U", "V", "W", "X", "Y", "Z">>
Upper == {upperCase[k] : k \in DOMAIN upperCase}
\* \w and \s of a regular expression.
WordChar == Digit \cup {lowerCase[k] : k \in DOMAIN lowerCase} \cup Upper
              \cup {"_"}
WhiteSpace == {" ", "\n"}

\* String.prototype.startsWith(w, i - 1), 1-based here.
StartsWithAt(s, i, w) ==
    /\ i >= 1 /\ i + Len(w) - 1 <= Len(s)
    /\ \A k \in 1..Len(w) : s[i + k - 1] = w[k]

\* String.prototype.includes(w).
includes(s, w) == \E i \in 1..(Len(s) + 1) : StartsWithAt(s, i, w)

\* String.prototype.trim().
RECURSIVE trimStart(_)
trimStart(s) ==
    IF s # <<>> /\ Head(s) \in WhiteSpace THEN trimStart(Tail(s)) ELSE s

RECURSIVE trimEnd(_)
trimEnd(s) ==
    IF s # <<>> /\ s[Len(s)] \in WhiteSpace
      THEN trimEnd(SubSeq(s, 1, Len(s) - 1)) ELSE s

trim(s) == trimEnd(trimStart(s))

\* String.prototype.toLowerCase().
toLowerCase(s) ==
    [k \in DOMAIN s |->
        IF s[k] \in Upper
          THEN lowerCase[CHOOSE m \in DOMAIN upperCase : upperCase[m] = s[k]]
          ELSE s[k]]

\* s.split(sep)[0] for a one-character sep: s up to its first sep.
splitFirst(s, sep) ==
    IF \E k \in DOMAIN s : s[k] = sep
      THEN SubSeq(s, 1, (CHOOSE k \in DOMAIN s :
                            /\ s[k] = sep
                            /\ \A m \in 1..(k - 1) : s[m] # sep) - 1)
      ELSE s

\* parseInt(s, 10) of a string of digits.
RECURSIVE parseInt(_)
parseInt(s) ==
    IF s = <<>> THEN 0
    ELSE 10 * parseInt(SubSeq(s, 1, Len(s) - 1))
           + (CHOOSE d \in 0..9 : digits[d + 1] = s[Len(s)])

\* s[i..j] is a non-empty run of digits.
IsDigits(s, i, j) == i <= j /\ \A k \in i..j : s[k] \in Digit

\* extractCardData, lines 318-324, but halving a doubled title of any
\* length. C16 as amended does not hold of it.
cleanTitleAnyLength(raw) ==
    LET t == trim(splitFirst(raw, "\n"))
        half == Len(t) \div 2
    IN IF SubSeq(t, 1, half) = SubSeq(t, half + 1, Len(t))
         THEN SubSeq(t, 1, half) ELSE t

\* extractCardData, lines 318-324: the first line of the title element,
\* trimmed, and cut to its first half when it is longer than dupMinLength
\* and its two halves are equal.
cleanTitle(raw) ==
    LET t == trim(splitFirst(raw, "\n"))
        half == Len(t) \div 2
    IN IF Len(t) > dupMinLength
            /\ SubSeq(t, 1, half) = SubSeq(t, half + 1, Len(t))
         THEN SubSeq(t, 1, half) ELSE t

\* (?:w1|w2|abbr) at position k of s, without the \b after abbr. C17 does
\* not hold of it.
UnitAtNoBoundary(s, k, words, abbr) ==
    \/ \E w \in words : StartsWithAt(s, k, w)
    \/ StartsWithAt(s, k, abbr)

\* The alternatives (?:w1|w2|abbr\b) of a unit pattern match at position k
\* of s: one of the words starts there, or abbr does and a word boundary
\* follows it.
UnitAt(s, k, words, abbr) ==
    \/ \E w \in words : StartsWithAt(s, k, w)
    \/ /\ StartsWithAt(s, k, abbr)
       /\ \/ k + Len(abbr) > Len(s)
          \/ s[k + Len(abbr)] \notin WordChar

\* text.match(/(\d+)\s*(?:w1|w2|abbr\b)/): group 1 of the leftmost match,
\* its digits taken greedily; <<>> when there is no match.
matchUnit(s, words, abbr) ==
    LET M == {ij \in (1..Len(s)) \X (1..Len(s)) :
                 /\ IsDigits(s, ij[1], ij[2])
                 /\ \E k \in (ij[2] + 1)..Len(s) :
                       /\ \A m \in (ij[2] + 1)..(k - 1) : s[m] \in WhiteSpace
                       /\ UnitAt(s, k, words, abbr)}
    IN IF M = {} THEN <<>>
       ELSE LET first == CHOOSE ij \in M :
                            \A o \in M : \/ ij[1] < o[1]
                                         \/ ij[1] = o[1] /\ ij[2] >= o[2]
            IN SubSeq(s, first[1], first[2])

justNowText == <<"j", "u", "s", "t", " ", "n", "o", "w">>
momentText == <<"m", "o", "m", "e", "n", "t">>
secondText == <<"s", "e", "c", "o", "n", "d">>
secText == <<"s", "e", "c">>
minuteText == <<"m", "i", "n", "u", "t", "e">>
minText == <<"m", "i", "n">>
hourText == <<"h", "o", "u", "r">>
hrText == <<"h", "r">>
dayText == <<"d", "a", "y">>
weekText == <<"w", "e", "e", "k">>
monthText == <<"m", "o", "n", "t", "h">>
moText == <<"m", "o">>

\* parseRelativeTime: the patterns in the order the code tries them.
parseRelativeTime(text) ==
    LET minMatch == matchUnit(text, {minuteText, minText}, <<"m">>)
        hourMatch == matchUnit(text, {hourText, hrText}, <<"h">>)
        dayMatch == matchUnit(text, {dayText}, <<"d">>)
        weekMatch == matchUnit(text, {weekText}, <<"w">>)
        monthMatch == matchUnit(text, {monthText}, moText)
    IN IF includes(text, justNowText) \/ includes(text, momentText) THEN 0
       ELSE IF matchUnit(text, {secondText, secText}, <<"s">>) # <<>> THEN 0
       ELSE IF minMatch # <<>> THEN parseInt(minMatch)
       ELSE IF hourMatch # <<>> THEN parseInt(hourMatch) * 60
       ELSE IF dayMatch # <<>> THEN parseInt(dayMatch) * 1440
       ELSE IF weekMatch # <<>> THEN parseInt(weekMatch) * 10080
       ELSE IF monthMatch # <<>> THEN parseInt(monthMatch) * 43200
       ELSE null

\* Two dates new Date() accepts, the day before and the day after the
\* epoch, and one string it does not.
dayBeforeText == <<"1", "9", "6", "9", "-", "1", "2", "-", "3", "1">>
dayAfterText == <<"1", "9", "7", "0", "-", "0", "1", "-", "0", "2">>
notADateText == <<"n", "/", "a">>

\* new Date(isoStr).getTime() is not NaN.
isDate(isoStr) == isoStr \in {dayBeforeText, dayAfterText}

\* new Date(isoStr).getTime(), in minutes.
getTime(isoStr) == IF isoStr = dayBeforeText THEN 0 - 1440 ELSE 1440

\* parseIsoDatetime; clock is Date.now() in minutes.
parseIsoDatetime(isoStr, clock) ==
    IF ~isDate(isoStr) THEN null
    ELSE IF clock - getTime(isoStr) < 0 THEN 0
    ELSE clock - getTime(isoStr)

\* parseMinutesAgo.
parseMinutesAgo(text, datetimeAttr, authenticated, clock) ==
    LET fromText == parseRelativeTime(trim(toLowerCase(text)))
        fromAttr == parseRelativeTime(trim(toLowerCase(datetimeAttr)))
        fromIso == parseIsoDatetime(trim(datetimeAttr), clock)
    IN IF fromText # null THEN fromText
       ELSE IF datetimeAttr # <<>> /\ fromAttr # null THEN fromAttr
       ELSE IF datetimeAttr # <<>> /\ fromIso # null THEN fromIso
       ELSE IF authenticated THEN 0
       ELSE unparsedMinutes

jobsViewText == <<"/", "j", "o", "b", "s", "/", "v", "i", "e", "w", "/">>
currentJobIdText == <<"c", "u", "r", "r", "e", "n", "t", "J", "o", "b", "I",
                      "d", "=">>
httpText == <<"h", "t", "t", "p">>
originText == <<"h", "t", "t", "p", "s", ":", "/", "/", "w", "w", "w", ".",
                "l", "i", "n", "k", "e", "d", "i", "n", ".", "c", "o", "m">>

\* The end of the run of digits of s that starts at a.
runEnd(s, a) ==
    CHOOSE j \in a..Len(s) :
        IsDigits(s, a, j) /\ (j = Len(s) \/ s[j + 1] \notin Digit)

\* url.match(/lit(\d+)/): group 1 of the leftmost match, or <<>>.
matchIdAfter(url, lit) ==
    LET I == {i \in 1..Len(url) :
                 /\ StartsWithAt(url, i, lit)
                 /\ i + Len(lit) <= Len(url)
                 /\ url[i + Len(lit)] \in Digit}
    IN IF I = {} THEN <<>>
       ELSE LET a == (CHOOSE i \in I : \A o \in I : i <= o) + Len(lit)
            IN SubSeq(url, a, runEnd(url, a))

\* url.match(/(\d{8,})/): the leftmost run of idMinDigits digits or more.
matchLongDigits(url) ==
    LET I == {i \in 1..Len(url) :
                 /\ i + idMinDigits - 1 <= Len(url)
                 /\ IsDigits(url, i, i + idMinDigits - 1)}
    IN IF I = {} THEN <<>>
       ELSE LET a == CHOOSE i \in I : \A o \in I : i <= o
            IN SubSeq(url, a, runEnd(url, a))

\* extractJobId; <<>> is its null.
extractJobId(url) ==
    IF matchIdAfter(url, jobsViewText) # <<>>
      THEN matchIdAfter(url, jobsViewText)
    ELSE IF matchIdAfter(url, currentJobIdText) # <<>>
      THEN matchIdAfter(url, currentJobIdText)
    ELSE matchLongDigits(url)

\* extractCardData, lines 386-388: the link it returns.
cleanLink(link) ==
    IF StartsWithAt(link, 1, httpText)
      THEN splitFirst(link, "?")
      ELSE originText \o splitFirst(link, "?")

\* extractCardData for one card whose company element has text.
ExtractCardData ==
    /\ scanop = "card" /\ ~scandone
    /\ title' = cleanTitle(rawTitle)
    /\ IF title' = <<>> \/ linkToUse = <<>>
         THEN minutesAgo' = 0 /\ cardData' = NoCard
         ELSE /\ minutesAgo' =
                   IF isAuthenticated THEN 0
                   ELSE parseMinutesAgo(postedDateText, postedDateAttr,
                                        isAuthenticated, now)
              /\ cardData' =
                   IF extractJobId(linkToUse) = <<>> THEN NoCard
                   ELSE [linkedinId |-> extractJobId(linkToUse),
                         link |-> cleanLink(linkToUse)]
    /\ scandone' = TRUE
    /\ UNCHANGED <<st, now, configValid, agentVars, cyc, mgrVars, scanop,
                   allCards, relevantIds, jobs, existingIds, totalSaved,
                   isAuthenticated, rawTitle, postedDateText, postedDateAttr,
                   linkToUse, scanpc, loopVars, applyVars, scrollVars>>

\* ------------------------------------------------- inputs of the scanner
TitleChars == {"a", "b", "\n"}
Titles == UNION {[1..n -> TitleChars] : n \in 0..MaxTitleLen}

\* String(n).
RECURSIVE toDigits(_)
toDigits(n) ==
    IF n < 10 THEN <<digits[n + 1]>>
    ELSE toDigits(n \div 10) \o <<digits[(n % 10) + 1]>>

\* The unit words and abbreviations the comments of parseRelativeTime name,
\* with their plurals, each with its minutes per unit.
Units ==
    {[word |-> <<"s", "e", "c", "o", "n", "d">>, minutes |-> 0],
     [word |-> <<"s", "e", "c", "o", "n", "d", "s">>, minutes |-> 0],
     [word |-> <<"s", "e", "c">>, minutes |-> 0],
     [word |-> <<"s", "e", "c", "s">>, minutes |-> 0],
     [word |-> <<"s">>, minutes |-> 0],
     [word |-> <<"m", "i", "n", "u", "t", "e">>, minutes |-> 1],
     [word |-> <<"m", "i", "n", "u", "t", "e", "s">>, minutes |-> 1],
     [word |-> <<"M", "i", "n", "u", "t", "e", "s">>, minutes |-> 1],
     [word |-> <<"m", "i", "n">>, minutes |-> 1],
     [word |-> <<"m", "i", "n", "s">>, minutes |-> 1],
     [word |-> <<"m">>, minutes |-> 1],
     [word |-> <<"h", "o", "u", "r">>, minutes |-> 60],
     [word |-> <<"h", "o", "u", "r", "s">>, minutes |-> 60],
     [word |-> <<"h", "r">>, minutes |-> 60],
     [word |-> <<"h", "r", "s">>, minutes |-> 60],
     [word |-> <<"h">>, minutes |-> 60],
     [word |-> <<"H">>, minutes |-> 60],
     [word |-> <<"d", "a", "y">>, minutes |-> 1440],
     [word |-> <<"d", "a", "y", "s">>, minutes |-> 1440],
     [word |-> <<"d">>, minutes |-> 1440],
     [word |-> <<"w", "e", "e", "k">>, minutes |-> 10080],
     [word |-> <<"w", "e", "e", "k", "s">>, minutes |-> 10080],
     [word |-> <<"w">>, minutes |-> 10080],
     [word |-> <<"m", "o", "n", "t", "h">>, minutes |-> 43200],
     [word |-> <<"m", "o", "n", "t", "h", "s">>, minutes |-> 43200],
     [word |-> <<"m", "o">>, minutes |-> 43200]}

\* "<n> <unit> ago", with and without the space and the "ago", and the age
\* in minutes each stands for.
RelativeTimes ==
    {[text |-> toDigits(n) \o sep \o u.word \o tail,
      minutes |-> n * u.minutes] :
        n \in 0..MaxCount, sep \in {<<>>, <<" ">>}, u \in Units,
        tail \in {<<>>, <<" ", "a", "g", "o">>}}

NowTexts == {justNowText, <<"J", "u", "s", "t", " ", "n", "o", "w">>,
             <<"m", "o", "m", "e", "n", "t", "s", " ", "a", "g", "o">>}

\* Date texts outside the vocabulary.
OtherTexts == {<<>>, <<"1", " ", "y", "e", "a", "r", " ", "a", "g", "o">>,
               <<"2", " ", "y", "r", " ", "a", "g", "o">>,
               <<"2", "5", " ", "a", "p", "p", "l", "i", "c", "a", "n", "t", "s">>,
               <<"y", "e", "s", "t", "e", "r", "d", "a", "y">>}

TimeTexts == {c.text : c \in RelativeTimes} \cup NowTexts \cup OtherTexts

\* datetime attributes: absent, not a date, a relative time, two dates.
DateAttrs == {<<>>, notADateText, <<"3", "d">>, dayBeforeText, dayAfterText}

\* The job ids on the page, idMinDigits digits long, and shorter numbers.
jobIdText(n) == <<"4", "0", "1", "2", "3", "4", "5", digits[n + 1]>>
shortIdText(n) == <<"7", digits[n + 1]>>

Paths ==
    {jobsViewText \o jobIdText(n) : n \in Ids}
      \cup {jobsViewText \o jobIdText(n) \o <<"/">> : n \in Ids}
      \cup {jobsViewText \o shortIdText(n) : n \in Ids}
      \cup {<<"/", "j", "o", "b", "s", "/">> \o jobIdText(n) : n \in Ids}
      \cup {<<"/", "j", "o", "b", "s", "/", "s", "e", "a", "r", "c", "h", "/">>}

Queries ==
    {<<>>}
      \cup {<<"?">> \o currentJobIdText \o jobIdText(n) : n \in Ids}
      \cup {<<"?", "t", "r", "k", "=">> \o shortIdText(n) : n \in Ids}

\* hrefs of a card: relative or absolute, with or without a query; or none.
Links ==
    {<<>>} \cup {o \o p \o q : o \in {<<>>, originText}, p \in Paths,
                                q \in Queries}

defaultTitle == <<"a", "b">>
defaultDateText == <<"1", " ", "h", "o", "u", "r", " ", "a", "g", "o">>
defaultLink == jobsViewText \o jobIdText(1)

\* extractCardData is about to look at one card of an unauthenticated or
\* authenticated session: any title, or any date, or any link.
InitCard ==
    /\ scanop = "card" /\ scandone = FALSE
    /\ allCards = <<>> /\ relevantIds = {} /\ jobs = {} /\ existingIds = {}
    /\ totalSaved = 0
    /\ st = markScraperRunning(DefaultState, 0)
    /\ scanpc = ""
    /\ LoopIdle /\ ApplyIdle /\ ScrollIdle
    /\ title = <<>> /\ minutesAgo = 0 /\ cardData = NoCard
    /\ \/ /\ rawTitle \in Titles
          /\ isAuthenticated = FALSE
          /\ postedDateText = defaultDateText /\ postedDateAttr = <<>>
          /\ linkToUse = defaultLink
       \/ /\ rawTitle = defaultTitle
          /\ isAuthenticated \in BOOLEAN
          /\ postedDateText \in TimeTexts /\ postedDateAttr \in DateAttrs
          /\ linkToUse = defaultLink
       \/ /\ rawTitle = defaultTitle
          /\ isAuthenticated \in BOOLEAN
          /\ postedDateText = defaultDateText /\ postedDateAttr = <<>>
          /\ linkToUse \in Links

\* ------------------------------------------- scanner: apply-link extraction
feedUrl == <<"/", "f", "e", "e", "d", "/">>
detailUrl == <<"/", "j", "o", "b", "s", "/", "v", "i", "e", "w", "/", "1", "/">>
loginUrl == <<"/", "l", "o", "g", "i", "n">>
authwallUrl == <<"/", "a", "u", "t", "h", "w", "a", "l", "l">>
checkpointUrl == <<"/", "c", "h", "e", "c", "k", "p", "o", "i", "n", "t", "/",
                   "c", "h", "a", "l", "l", "e", "n", "g", "e">>

\* The pages LinkedIn sends a signed-out or challenged session to.
RedirectUrls == {loginUrl, authwallUrl, checkpointUrl}

\* validateSession's isLoggedIn for the url the browser ended on.
isLoggedIn(currentUrl) ==
    /\ ~includes(currentUrl, loginUrl)
    /\ ~includes(currentUrl, authwallUrl)
    /\ ~includes(currentUrl, <<"/", "c", "h", "e", "c", "k", "p", "o", "i",
                               "n", "t">>)

\* extractApplyLink's test for "redirected to login (session expired)".
sessionExpired(currentUrl) ==
    includes(currentUrl, loginUrl) \/ includes(currentUrl, authwallUrl)

\* What the scan of the <a> tags of a detail page finds.
ApplyResults == {"external", "easy_apply", "not_found"}

\* A cycle's `new LinkedInScraper()` and launch(): isAuthenticated starts
\* false and becomes validateSession(page) when valid cookies were loaded.
Launch ==
    /\ scanop = "apply" /\ scanpc = "launch"
    /\ \E cookies \in BOOLEAN, currentUrl \in {feedUrl} \cup RedirectUrls :
         isAuthenticated' = (cookies /\ isLoggedIn(currentUrl))
    /\ navigated' = FALSE /\ applyLink' = ""
    /\ scanpc' = "job"
    /\ UNCHANGED <<st, now, configValid, agentVars, cyc, mgrVars, scanop,
                   scandone, allCards, relevantIds, jobs, existingIds,
                   totalSaved, rawTitle, title, postedDateText,
                   postedDateAttr, minutesAgo, linkToUse, cardData,
                   redirected, loopVars, scrollVars>>

\* extractApplyLink(job) for one new card. navigated: page.goto(detailUrl)
\* was called; the second disjunct is its catch. redirected: some call of
\* this process so far ended on a login, authwall or checkpoint page.
ExtractApplyLink ==
    /\ scanop = "apply" /\ scanpc = "job"
    /\ IF ~isAuthenticated
         THEN /\ navigated' = FALSE /\ applyLink' = ""
              /\ UNCHANGED <<isAuthenticated, redirected>>
         ELSE /\ navigated' = TRUE
              /\ \/ \E currentUrl \in {detailUrl} \cup RedirectUrls,
                       result \in ApplyResults :
                      /\ currentUrl # detailUrl => result = "not_found"
                      /\ redirected' = (redirected \/ ~isLoggedIn(currentUrl))
                      /\ isAuthenticated' = ~sessionExpired(currentUrl)
                      /\ applyLink' =
                           IF ~sessionExpired(currentUrl)
                                /\ result = "external"
                             THEN "external"
                             ELSE ""
                 \/ /\ applyLink' = ""
                    /\ UNCHANGED <<isAuthenticated, redirected>>
    /\ scanpc' = "save"
    /\ UNCHANGED <<st, now, configValid, agentVars, cyc, mgrVars, scanop,
                   scandone, allCards, relevantIds, jobs, existingIds,
                   totalSaved, rawTitle, title, postedDateText,
                   postedDateAttr, minutesAgo, linkToUse, cardData,
                   loopVars, scrollVars>>

\* saveJobMinimal for that card; the loop turns to the next new card.
SaveWithApplyLink ==
    /\ scanop = "apply" /\ scanpc = "save"
    /\ scanpc' = "job"
    /\ UNCHANGED <<st, now, configValid, agentVars, cyc, mgrVars, scanop,
                   scandone, allCards, relevantIds, jobs, existingIds,
                   totalSaved, cardVars, loopVars, applyVars, scrollVars>>

\* The cycle ends: scraper.close(). The next cycle makes a new scraper.
CloseScraper ==
    /\ scanop = "apply" /\ scanpc = "job"
    /\ scanpc' = "launch"
    /\ scandone' = TRUE
    /\ UNCHANGED <<st, now, configValid, agentVars, cyc, mgrVars, scanop,
                   allCards, relevantIds, jobs, existingIds, totalSaved,
                   cardVars, loopVars, applyVars, scrollVars>>

\* An agent process before the launch() of its first cycle.
InitApply ==
    /\ scanop = "apply" /\ scandone = FALSE /\ scanpc = "launch"
    /\ allCards = <<>> /\ relevantIds = {} /\ jobs = {} /\ existingIds = {}
    /\ totalSaved = 0
    /\ CardIdle /\ LoopIdle /\ ApplyIdle /\ ScrollIdle
    /\ st = DefaultState

\* ------------------------------------------------ scanner: the scroll loop
maxScrollAttempts == 12

\* The staleThreshold of a round that counted currentCount cards.
staleThresholdUniform(currentCount) == 2

staleThreshold(currentCount) == IF currentCount = 0 THEN 4 ELSE 2

\* One round of the for loop of scrollToLoadAllCards: count the cards, break
\* or scroll on. counts keeps every count the loop has read.
ScrollRound ==
    /\ scanop = "scroll" /\ scanpc = "scroll"
    /\ attempt < maxScrollAttempts
    /\ \E currentCount \in 0..MaxLoaded :
         LET stale == IF currentCount = previousCardCount
                        THEN staleRounds + 1
                        ELSE 0
             break == /\ currentCount = previousCardCount
                      /\ stale >= staleThreshold(currentCount)
         IN /\ counts' = Append(counts, currentCount)
            /\ staleRounds' = stale
            /\ IF break
                 THEN /\ scanpc' = "loaded"
                      /\ UNCHANGED <<attempt, previousCardCount>>
                 ELSE /\ scanpc' = "scroll"
                      /\ previousCardCount' = currentCount
                      /\ attempt' = attempt + 1
    /\ UNCHANGED <<st, now, configValid, agentVars, cyc, mgrVars, scanop,
                   scandone, allCards, relevantIds, jobs, existingIds,
                   totalSaved, cardVars, loopVars, applyVars>>

\* attempt < maxScrollAttempts is false: the loop ends without a break.
ScrollCap ==
    /\ scanop = "scroll" /\ scanpc = "scroll"
    /\ attempt >= maxScrollAttempts
    /\ scanpc' = "capped"
    /\ scandone' = TRUE
    /\ UNCHANGED <<st, now, configValid, agentVars, cyc, mgrVars, scanop,
                   allCards, relevantIds, jobs, existingIds, totalSaved,
                   cardVars, loopVars, applyVars, scrollVars>>

\* scrollToLoadAllCards is entered with a page.
InitScroll ==
    /\ scanop = "scroll" /\ scandone = FALSE /\ scanpc = "scroll"
    /\ allCards = <<>> /\ relevantIds = {} /\ jobs = {} /\ existingIds = {}
    /\ totalSaved = 0
    /\ CardIdle /\ LoopIdle /\ ApplyIdle /\ ScrollIdle
    /\ st = DefaultState

\* ------------------------------------------------------------------- Next
\* main() and startScheduler() of agent a; S are its invocation slots.
MainStep(a, S) ==
    \/ AgentInit(a)
    \/ AgentCheckOwner(a)
    \/ AgentResetRead(a)
    \/ AgentResetWrite(a)
    \/ AgentRegister(a)
    \/ SchedulerResetRead(a)
    \/ SchedulerResetWrite(a)
    \/ SchedulerStart(a)
    \/ IntervalTick(a, S)

\* main().catch of agent a.
FatalStep(a) ==
    \/ AgentFatal(a)
    \/ AgentCatchClear(a)
    \/ AgentCatchExit(a)

\* The signal handlers and shutdown(signal) of agent a.
ShutdownStep(a) ==
    \/ AgentSignalDefault(a)
    \/ AgentOnSignal(a)
    \/ ShutdownPoll(a)
    \/ ShutdownTimeout(a)
    \/ ShutdownClear(a)
    \/ ShutdownExit(a)

\* runScrapeCycle() of agent a in slots S, failures injected below cap.
CycleStep(a, S, cap) ==
    \/ \E i \in S : CycleEnter(a, i)
    \/ \E i \in S : CycleMark(a, i)
    \/ \E i \in S : CycleLaunch(a, i, cap)
    \/ \E i \in S : CycleWork(a, i, cap)
    \/ \E i \in S : CycleSuccess(a, i)
    \/ \E i \in S : CycleErrorRead(a, i, cap)
    \/ \E i \in S : CycleErrorWrite(a, i)
    \/ \E i \in S : CycleClose(a, i)

MgrStep(A) ==
    \/ \E op \in {"status", "start", "stop"} : MgrCall(op)
    \/ MgrStatusRead
    \/ MgrStatusClean
    \/ MgrStartDecide(A)
    \/ MgrStartSetPid
    \/ MgrStartVerify
    \/ MgrStartClean
    \/ MgrStopRead
    \/ MgrStopPoll
    \/ MgrStopTimeout
    \/ MgrStopClean

\* One agent, run directly, its scheduler and its cycles against the clock:
\* up to MaxInv invocations of runScrapeCycle pending at a time.
NextCycle ==
    \/ Tick
    \/ EnvStartAgent(1)
    \/ MainStep(1, Slots)
    \/ CycleStep(1, Slots, MaxErrorCount)

SpecCycle == Init /\ [][NextCycle]_vars

\* One agent, run directly, and the signals sent to it.
NextShutdown ==
    \/ EnvStartAgent(1)
    \/ EnvSignal(1)
    \/ MainStep(1, Slots)
    \/ ShutdownStep(1)
    \/ CycleStep(1, Slots, MaxErrLife)

SpecShutdown == Init /\ [][NextShutdown]_vars

\* Agents run directly, side by side; any of them may crash.
NextStart ==
    \/ \E a \in Agents : EnvStartAgent(a)
    \/ \E a \in Agents : EnvCrash(a)
    \/ \E a \in Agents : MainStep(a, {1})
    \/ \E a \in Agents : CycleStep(a, {1}, MaxErrLife)

SpecStart == Init /\ [][NextStart]_vars

\* The agent manager and the agents it spawns, stops and probes; an agent
\* may also be run directly, be signalled from outside, or crash.
MgrAgents == 1..MaxSpawned

NextMgr ==
    \/ \E a \in MgrAgents : EnvStartAgent(a)
    \/ \E a \in MgrAgents : EnvCrash(a)
    \/ \E a \in MgrAgents : MainStep(a, {1})
    \/ \E a \in MgrAgents : ShutdownStep(a)
    \/ \E a \in MgrAgents : CycleStep(a, {1}, MaxErrLife)
    \/ MgrStep(MgrAgents)

SpecMgr == Init /\ [][NextMgr]_vars

\* The agent manager next to agents that are spawned by it or run directly,
\* several at a time, any of which may crash.
NextSpawn ==
    \/ \E a \in Agents : EnvStartAgent(a)
    \/ \E a \in Agents : EnvCrash(a)
    \/ \E a \in Agents : MainStep(a, {1})
    \/ \E a \in Agents : CycleStep(a, {1}, MaxErrLife)
    \/ MgrStep(Agents)

SpecSpawn == Init /\ [][NextSpawn]_vars

\* Agents run directly, side by side, whose database queries may reject
\* during startup.
NextFatal ==
    \/ \E a \in Agents : EnvStartAgent(a)
    \/ \E a \in Agents : MainStep(a, {1})
    \/ \E a \in Agents : FatalStep(a)
    \/ \E a \in Agents : CycleStep(a, {1}, MaxErrLife)

SpecFatal == Init /\ [][NextFatal]_vars

\* The scanner and the keyword loop on their own, from any input.
InitScan ==
    /\ now = 0
    /\ configValid = TRUE
    /\ NoAgents
    /\ InitKeyword \/ InitCard \/ InitLoop \/ InitApply \/ InitScroll

NextScan ==
    \/ RunKeywordLoop
    \/ ExtractCardData
    \/ KeywordIteration
    \/ KeywordThrows
    \/ LoopSuccess
    \/ LoopClose
    \/ Launch
    \/ ExtractApplyLink
    \/ SaveWithApplyLink
    \/ CloseScraper
    \/ ScrollRound
    \/ ScrollCap

SpecScan == InitScan /\ [][NextScan]_vars

\* ------------------------------------------------------------------ claims
\* C1: of the invocations of runScrapeCycle of one agent, at most one at a
\* time is between its markScraperRunning() and its end-of-cycle update
\* (markScraperSuccess or markScraperError), however the immediate run and
\* the interval ticks interleave. (SpecCycle)
C1_AtMostOneCycleInFlight ==
    \A a \in Agents :
        Cardinality({i \in Slots : cyc[a][i].pc \in
            {"launch", "work", "success", "errRead", "errWrite"}}) <= 1

\* C2: never are two live agent processes both past the ownership check of
\* main() with their scheduler started. (SpecStart)
C2_AtMostOneAgentRunning ==
    Cardinality({a \in Agents : alive[a] /\ apc[a] = "running"}) <= 1

\* C3: the step by which an agent leaves its ownership check while
\* ScraperState.pid names a live process ends the agent with exit code 1,
\* starts no scheduler (no timer, no cycle invocation) and leaves every field
\* of ScraperState as it was. (SpecStart)
C3_LiveOwnerRefused ==
    [][\A a \in Agents :
          ( /\ apc[a] = "check" /\ apc'[a] # "check"
            /\ exitCode'[a] \notin {"crash", "sigkill"}
            /\ st.pid # NoPid /\ isProcessAlive(st.pid) )
          => ( /\ exitCode'[a] = "exit1" /\ ~alive'[a]
               /\ ~intervalActive'[a]
               /\ \A i \in Slots : cyc'[a][i].pc = "idle"
               /\ st' = st )]_vars

\* C3 witness: an agent has exited with code 1 although the configuration was
\* valid, and the owner it found is still recorded and alive.
C3_Witness ==
    \E a \in Agents :
        /\ configValid /\ exitCode[a] = "exit1"
        /\ st.pid # NoPid /\ st.pid # a /\ isProcessAlive(st.pid)

\* C4: from the start of its scheduler until it begins to shut down, a live
\* agent finds its own pid in ScraperState.pid. (SpecStart)
C4_OwnerPidIsSelf ==
    \A a \in Agents :
        (alive[a] /\ apc[a] = "running" /\ sdpc[a] = "idle") => st.pid = a

\* C5: the step by which stopAgent returns, having found a recorded pid,
\* leaves that process dead and ScraperState.pid null, so that the liveness
\* probe of getAgentStatus gives running = false, whether the process went
\* on SIGTERM, on SIGKILL, or was gone already. (SpecMgr)
C5_StopTerminatesAndClears ==
    [][(mop = "stop" /\ mpc = "stopClean" /\ mpc' = "idle")
          => ( /\ ~isProcessAlive(mpid)'
               /\ st'.pid = NoPid
               /\ ~ProbeRunning(st)' )]_vars

\* C5 witness: stopAgent has returned after signalling a live agent, which is
\* dead now, and no pid is recorded.
C5_Witness ==
    /\ mop = "stop" /\ mpc = "idle" /\ mout \in {"graceful", "forced"}
    /\ mpid # NoPid /\ ~isProcessAlive(mpid) /\ exitCode[mpid] \in {"exit0", "sigkill"}
    /\ st.pid = NoPid

\* C6: an invocation that an interval tick made after shutdown(signal) began
\* never gets past the entry guards: it neither marks isRunning nor launches
\* a browser. (SpecShutdown)
C6_NoCycleAfterSignal ==
    \A a \in Agents : \A i \in Slots :
        cyc[a][i].sig = "tick" => cyc[a][i].pc \notin InFlight

\* C7: a process that has begun shutdown(signal) ends only when no invocation
\* that was in flight at the signal is still short of the end of close(), or
\* when the wait loop of shutdown(signal) ran out. (SpecShutdown)
C7_ExitWaitsForCleanup ==
    [][\A a \in Agents :
          (alive[a] /\ ~alive'[a] /\ sdpc[a] # "idle")
          => ( \/ waitExpired[a]
               \/ \A i \in Slots : cyc[a][i].sig # "during" )]_vars

\* C8: when getAgentStatus returns and no agent process is alive, one of them
\* having crashed, ScraperState has isRunning = false and pid = null. (SpecMgr)
C8_StatusHealsCrash ==
    [][( /\ mop = "status" /\ mpc # "idle" /\ mpc' = "idle"
         /\ \A a \in Agents : ~alive[a]
         /\ \E a \in Agents : exitCode[a] = "crash" )
          => (~st'.isRunning /\ st'.pid = NoPid)]_vars

\* C9: the AgentStatus that getAgentStatus returns after cleaning a stale pid
\* shows the cleaned state: not running, no pid, no cycle in progress. (SpecMgr)
C9_CleanedStatusReturned ==
    (mop = "status" /\ mpc = "idle" /\ mout = "cleaned")
        => (~mres.running /\ mres.pid = NoPid /\ ~mres.isRunningCycle)

\* C10: an invocation of runScrapeCycle that reads errorCount at or above
\* maxConsecutiveErrors, less than errorPauseMinutes after lastRunAt, returns
\* at once: it opens no browser and no field of ScraperState changes. (SpecCycle)
C10_PausedAttemptIsNoOp ==
    [][\A a \in Agents : \A i \in Slots :
          ( /\ cyc[a][i].pc = "read" /\ cyc'[a][i].pc # "read"
            /\ st.errorCount >= maxConsecutiveErrors
            /\ now < st.lastRunAt + errorPauseMinutes )
          => (cyc'[a][i] = IdleInv /\ st' = st)]_vars

\* C10 witness: the entry guards have just turned an invocation away as
\* paused, errorCount standing at the threshold or above.
C10_Witness ==
    \E a \in Agents :
        /\ cycleLog[a] = "paused"
        /\ ~st.isRunning
        /\ st.errorCount >= maxConsecutiveErrors
        /\ now < st.lastRunAt + errorPauseMinutes

\* C11: an invocation of runScrapeCycle that reads errorCount at or above
\* maxConsecutiveErrors once errorPauseMinutes have passed since lastRunAt,
\* no cycle being marked running, passes the entry guards and goes on to
\* markScraperRunning(): the pause ends by the clock alone. (SpecCycle)
C11_PauseExpires ==
    [][\A a \in Agents : \A i \in Slots :
          ( /\ cyc[a][i].pc = "read" /\ cyc'[a][i].pc # "read"
            /\ ~st.isRunning
            /\ st.errorCount >= maxConsecutiveErrors
            /\ now >= st.lastRunAt + errorPauseMinutes )
          => cyc'[a][i].pc = "mark"]_vars

\* C11 witness: an invocation has passed the guards and stands before
\* markScraperRunning() with errorCount at the threshold or above.
C11_Witness ==
    \E a \in Agents : \E i \in Slots :
        /\ cyc[a][i].pc = "mark" /\ cycleLog[a] = "passed"
        /\ st.errorCount >= maxConsecutiveErrors
        /\ now >= st.lastRunAt + errorPauseMinutes

C13_PersistsExactlyNewRelevant ==
    [][(scanop = "keyword" /\ ~scandone /\ scandone')
          => LET passing == {allCards[k].linkedinId : k \in
                               {j \in DOMAIN allCards :
                                  /\ allCards[j].minutesAgo <= maxMinutesAgo
                                  /\ allCards[j].linkedinId \in relevantIds}}
             IN /\ jobs' = jobs \cup passing
                /\ totalSaved' = Cardinality(passing \ jobs)
                /\ st'.lastSuccessAt = now /\ st'.errorCount = 0
                /\ ~st'.isRunning]_vars

\* C13 witness: of three scanned cards one was too old, one was stored
\* already and one was saved as the only new record.
C13_Witness ==
    /\ scanop = "keyword" /\ scandone
    /\ Len(allCards) = 3
    /\ \E k \in DOMAIN allCards : allCards[k].minutesAgo > maxMinutesAgo
    /\ existingIds # {}
    /\ totalSaved = 1
    /\ st.errorCount = 0 /\ st.lastSuccessAt = now

\* C14: the steps of a startAgent call made while an agent is running its
\* scheduler, or while the configuration is invalid, spawn no process and
\* leave ScraperState alone, and the call ends as a rejection. (SpecSpawn)
C14_StartRejectsUntouched ==
    [][( /\ mop = "start" /\ mpc \in {"read", "clean", "decide"} /\ mpc' # mpc
         /\ \/ ~configValid
            \/ \E a \in Agents : alive[a] /\ apc[a] = "running" )
          => ( /\ alive' = alive /\ st' = st
               /\ mpc = "decide"
                    => mout' \in {"alreadyRunning", "configInvalid"} )]_vars

\* C15: the siteId of a card that extractCardData returns is the id that
\* extractJobId derives from the returned link, and the returned link holds
\* no query string. (SpecScan)
C15_IdDerivableFromLink ==
    (scanop = "card" /\ scandone /\ cardData # NoCard)
      => /\ extractJobId(cardData.link) = cardData.linkedinId
         /\ \A k \in DOMAIN cardData.link : cardData.link[k] # "?"

C17_RelativeTimeTotal ==
    [][(/\ scanop = "card" /\ ~scandone /\ scandone'
        /\ ~isAuthenticated /\ title' # <<>> /\ linkToUse # <<>>)
         => /\ \A c \in RelativeTimes :
                  postedDateText = c.text => minutesAgo' = c.minutes
            /\ postedDateText \in NowTexts => minutesAgo' = 0
            /\ (postedDateText \in OtherTexts
                  /\ postedDateAttr \in {<<>>, notADateText})
                 => minutesAgo' = unparsedMinutes
            /\ minutesAgo' \in Nat]_vars

\* "2 weeks ago", in one of its spellings, has been parsed to 20160 minutes.
C17_Witness ==
    /\ scanop = "card" /\ scandone /\ ~isAuthenticated
    /\ minutesAgo = 20160
    /\ \E c \in RelativeTimes :
          c.text = postedDateText /\ c.minutes = 2 * 10080

\* C18: the resetScraperStateOnStartup of startScheduler leaves isRunning
\* and pid as they are when the process ScraperState.pid names is alive.
\* (SpecStart)
C18_StartKeepsLiveOwner ==
    [][\A a \in Agents :
         ( /\ apc[a] \in {"schedResetRead", "schedResetWrite"}
           /\ apc'[a] # apc[a]
           /\ st.pid # NoPid /\ isProcessAlive(st.pid) )
           => (st'.isRunning = st.isRunning /\ st'.pid = st.pid)]_vars

\* C19: an agent that startAgent has spawned, and whose pid startAgent has
\* written to ScraperState, is not ended by its own "another agent is
\* already running" check. (SpecMgr)
C19_SpawnedAgentPassesCheck ==
    [][\A a \in Agents :
         (alive[a] /\ apc[a] = "check" /\ apc'[a] # "check" /\ st.pid = a)
           => exitCode'[a] # "exit1"]_vars

\* C20: the clearScraperPid of getAgentStatus, of stopAgent and of a failed
\* startAgent does not change ScraperState.pid or isRunning while pid names
\* a live agent. (SpecSpawn)
C20_CleanupSparesLiveOwner ==
    [][(mpc \in {"clean", "startClean", "stopClean"} /\ mpc' # mpc
          /\ st.pid # NoPid /\ isProcessAlive(st.pid))
         => (st'.pid = st.pid /\ st'.isRunning = st.isRunning)]_vars

\* C21: when shutdown(signal) of an agent ends the process and no cycle
\* invocation made after the signal is pending, ScraperState is left with
\* isRunning = false. (SpecShutdown)
C21_ShutdownLeavesStateClear ==
    [][\A a \in Agents :
         ( /\ alive[a] /\ sdpc[a] = "exit" /\ ~alive'[a]
           /\ exitCode'[a] = "exit0"
           /\ \A i \in Slots : cyc[a][i].sig \notin {"start", "tick"} )
           => ~st'.isRunning]_vars

\* C22: the step that ends markScraperError() of a failed cycle raises
\* errorCount by exactly 1 and sets isRunning to false, the step that ends
\* markScraperSuccess() sets errorCount to 0, and every other step leaves
\* errorCount as it is. (SpecCycle)
C22_ErrorCountCountsFailures ==
    [][IF \E a \in Agents, i \in Slots :
             cyc[a][i].pc = "errWrite" /\ cyc'[a][i].pc = "close"
         THEN st'.errorCount = st.errorCount + 1 /\ ~st'.isRunning
         ELSE IF \E a \in Agents, i \in Slots :
                   cyc[a][i].pc = "success" /\ cyc'[a][i].pc = "close"
         THEN st'.errorCount = 0
         ELSE st'.errorCount = st.errorCount]_vars

\* A step of the keyword loop that scanned keyword ki: KeywordIteration.
ScannedKeyword == scanop = "cycle" /\ scanpc = "keyword" /\ kwLog' # kwLog

\* C23: a cycle whose browser crashed during a keyword scan ends Failed: its
\* last write to ScraperState adds one to errorCount and leaves lastSuccessAt
\* as it was.
C23_CrashFailsCycle ==
    [][( /\ scanop = "cycle" /\ ~browserUp
         /\ scanpc # "close" /\ scanpc' = "close" )
         => /\ st'.errorCount = st.errorCount + 1
            /\ st'.lastSuccessAt = st.lastSuccessAt]_vars

C25_FailedSaveIsSkipped ==
    [][/\ (ScannedKeyword /\ failedSaves'[ki] # {})
            => /\ (relevantIds' \cap idsOf(allCards'))
                      \subseteq (jobs' \cup failedSaves'[ki])
               /\ totalSaved' = totalSaved + Cardinality(jobs' \ jobs)
               /\ st' = st
               /\ ki' = ki + 1
               /\ scanpc' = IF ki = NumKeywords THEN "success" ELSE "keyword"
       /\ (scanop = "cycle" /\ scanpc = "success" /\ scanpc' = "close")
            => /\ st'.errorCount = 0 /\ ~st'.isRunning
               /\ st'.lastSuccessAt = now]_vars

\* A cycle that ended with Success in which a save of the first keyword
\* failed, another posting of that keyword was saved, and the second keyword
\* saved a posting too.
C25_Witness ==
    /\ scanop = "cycle" /\ scanpc = "closed"
    /\ failedSaves[1] # {} /\ failedSaves[2] = {}
    /\ kwLog[2] = "Scan complete"
    /\ totalSaved >= 2
    /\ st.errorCount = 0 /\ ~st.isRunning /\ st.lastSuccessAt = now

\* C29: saving a posting whose linkedinId is already stored leaves one record
\* of it and is not reported as a failure: no id that is stored after a
\* keyword's saves is among those logged 'Failed to save'.
C29_DuplicateSaveNotReported ==
    [][ScannedKeyword => failedSaves'[ki] \cap jobs' = {}]_vars

\* C28: the age of an extracted card is the age parsed from its relative
\* text or its datetime attribute, authenticated or not; only when neither
\* parses is it the sentinel, 0 when authenticated and 9999 otherwise.
C28_ParseableAgeIsKept ==
    [][( /\ scanop = "card" /\ ~scandone /\ scandone'
         /\ title' # <<>> /\ linkToUse # <<>> )
         => minutesAgo' = parseMinutesAgo(postedDateText, postedDateAttr,
                                          isAuthenticated, now)]_vars

\* C27: once a call of extractApplyLink ended on a login or checkpoint page,
\* every later call in the same agent process, in this cycle or a later one,
\* returns "" without navigating to a detail page.
C27_NoResolveAfterRedirect ==
    [][( /\ scanop = "apply" /\ redirected
         /\ scanpc = "job" /\ scanpc' = "save" )
         => ~navigated' /\ applyLink' = ""]_vars

\* Round n of the scroll loop counted what the round before it had counted
\* (the first round: 0, the initial previousCardCount).
StaleRound(n) == counts[n] = (IF n = 1 THEN 0 ELSE counts[n - 1])

\* The last k rounds were all stale.
UnchangedFor(k) ==
    /\ Len(counts) >= k
    /\ \A n \in (Len(counts) - k + 1)..Len(counts) : StaleRound(n)

\* C30: the scroll loop runs at most 12 rounds, and it has stopped early
\* exactly when the card count was unchanged for the last two rounds, or for
\* the last four rounds with the count still zero.
C30_ScrollLoopStops ==
    scanop = "scroll" =>
      /\ attempt <= 12 /\ Len(counts) <= 12
      /\ scanpc = "scroll" => Len(counts) = attempt
      /\ scanpc = "capped" => Len(counts) = 12
      /\ scanpc = "loaded" <=>
           /\ counts # <<>>
           /\ IF counts[Len(counts)] = 0 THEN UnchangedFor(4)
              ELSE UnchangedFor(2)

\* The loop stopped after four rounds that found no card, and (elsewhere)
\* after the cap; here: the early stop on zero.
C30_Witness ==
    /\ scanop = "scroll" /\ scanpc = "loaded"
    /\ counts = <<0, 0, 0, 0>> /\ attempt = 3

\* C26: an agent that recorded itself as owner and exits through the handler
\* of main().catch is not named by ScraperState.pid when it exits.
C26_FatalExitReleasesOwnership ==
    [][\A a \in Agents :
         (alive[a] /\ apc[a] = "catchExit" /\ ~alive'[a])
           => st'.pid # a]_vars

====
